---- MODULE Spec2Model ----
(***************************************************************************)
(* sqframe: frames an image in a square with a blurred copy of itself as   *)
(* background.  The model follows src/src/lib.rs (run and its helpers,     *)
(* which end the process through raise / process::exit) and                *)
(* src/src/main.rs (the binary's main, the same pipeline with its own      *)
(* inline error handling).  The variable entry says which of the two is    *)
(* executing.                                                              *)
(*                                                                         *)
(* Images are records of their dimensions; pixel contents are given by     *)
(* the operators SrcPixel / BgPixel (RGBA channel tuples), and only the    *)
(* composited image carries an explicit pixel buffer.                      *)
(***************************************************************************)
EXTENDS Integers, Sequences, FiniteSets, TLC

VARIABLES
    entry,          \* "run" (lib.rs) or "main" (main.rs)
    build,          \* "debug": u32 overflow panics; "release": it wraps
    args,           \* [input_path, output_path], each "Some" or "None"
    pc,             \* position in run / main
    exit,           \* process exit status, NoExit (-1) while running
    error,          \* the collaborator error that occurred, "none" if none
    image,          \* the decoded source image
    geom,           \* sqside, factor, resized_width, resized_height
    crop,           \* the crop rectangle handed to bg.crop
    bg,             \* the background being built
    final_image,    \* overlay's result
    fs,             \* the output path, its content, and the backup path
    clipboard,      \* the system clipboard's content
    resp,           \* confirm's response buffer
    line,           \* the line confirm's current pass read from stdin
    confirmResult   \* what confirm returned, "none" before it returns

vars == <<entry, build, args, pc, exit, error, image, geom, crop, bg,
          final_image, fs, clipboard, resp, line, confirmResult>>

-----------------------------------------------------------------------------
(* Bounds of the model *)

MaxDim == 7
MaxLine == 3

Dims == 1..MaxDim
\* dimensions at which the u32 products of the geometry leave 32 bits
BigDims == {65536, 65537}
Builds == {"debug", "release"}
Entries == {"run", "main"}
Alphas == {0, 255}

-----------------------------------------------------------------------------
(* u32 arithmetic.  Values are kept below 2^31; a product is split in      *)
(* 16-bit halves so that its overflow and its low 32 bits are computed     *)
(* without leaving that range.                                             *)

TwoPow16 == 256 * 256

max(a, b) == IF a >= b THEN a ELSE b
min(a, b) == IF a <= b THEN a ELSE b

\* a * b on u32: whether the product leaves 32 bits, and its low 32 bits
U32Mul(a, b) ==
    LET a1 == a \div TwoPow16
        a0 == a % TwoPow16
        b1 == b \div TwoPow16
        b0 == b % TwoPow16
        low == a0 * b0
        mid == (a1 * b0) + (a0 * b1) + (low \div TwoPow16)
    IN  [overflow |-> (a1 * b1 > 0) \/ (mid >= TwoPow16),
         value    |-> ((mid % TwoPow16) * TwoPow16) + (low % TwoPow16)]

\* (a - b) / 2 on u32: a - b wraps to 2^32 - (b - a) when a < b
U32SubHalf(a, b) ==
    [overflow |-> a < b,
     value    |-> IF a >= b
                  THEN (a - b) \div 2
                  ELSE (2147483647 - ((b - a + 1) \div 2)) + 1]

\* (a + b) / 2 on u32, for a + b below 2^31
U32AddHalf(a, b) == [overflow |-> FALSE, value |-> (a + b) \div 2]

-----------------------------------------------------------------------------
(* Images *)

NoImage == [width |-> 0, height |-> 0]
NoGeom == [sqside |-> 0, factor |-> 0, resized_width |-> 0, resized_height |-> 0]
NoCrop == [x |-> 0, y |-> 0, width |-> 0, height |-> 0]

Coords(w, h) == (0..(w - 1)) \X (0..(h - 1))

\* RGBA channels of the source pixel at (x, y): distinct per coordinate
SrcPixel(img, x, y) == <<x + 1, y + 1, 1, img.alpha>>
\* RGBA channels of the background pixel at (x, y) (an Rgb8 buffer: alpha 255)
BgPixel(b, x, y) == <<x + 1, y + 1, 2, 255>>
\* RgbImage::new: a zeroed buffer
ZeroRgb == <<0, 0, 0>>

ToRgbMutant(p) == <<p[1], p[2], p[4]>>
\* Pixel::to_rgb: drops the alpha channel
ToRgb(p) == <<p[1], p[2], p[3]>>

-----------------------------------------------------------------------------
(* Geometry: run, lib.rs 268-272 (main.rs 166-170) *)

\* let sqside = max(width, height)
Sqside(width, height) == max(width, height)

FactorMutant(width, height) == max(width, height)
\* let factor = min(width, height)
Factor(width, height) == min(width, height)

ResizedDimMutant(dim, sqside, factor) == U32Mul(dim, factor).value \div sqside
\* dim * sqside / factor on u32 (the product's low 32 bits, divided)
ResizedDim(dim, sqside, factor) == U32Mul(dim, sqside).value \div factor

\* The planned geometry.  A u32 product that overflows panics in a debug
\* build and wraps in a release build.
Plan(width, height, bld) ==
    LET sqside == Sqside(width, height)
        factor == Factor(width, height)
    IN  IF /\ bld = "debug"
           /\ U32Mul(width, sqside).overflow \/ U32Mul(height, sqside).overflow
        THEN [panic |-> TRUE, geom |-> NoGeom]
        ELSE [panic |-> FALSE,
              geom  |-> [sqside |-> sqside, factor |-> factor,
                         resized_width  |-> ResizedDim(width, sqside, factor),
                         resized_height |-> ResizedDim(height, sqside, factor)]]

-----------------------------------------------------------------------------
(* The image crate's operations that run calls *)

\* f64::round on a non-negative quotient n / d: half rounds away from zero
RoundDiv(n, d) == ((2 * n) + d) \div (2 * d)

\* DynamicImage::resize(nwidth, nheight, filter) keeps the aspect ratio: the
\* image is scaled by min(nwidth / width, nheight / height), each new
\* dimension rounded and at least 1.
ResizeDimensions(width, height, nwidth, nheight) ==
    IF nwidth * height <= nheight * width
    THEN [width  |-> max(RoundDiv(width * nwidth, width), 1),
          height |-> max(RoundDiv(height * nwidth, width), 1)]
    ELSE [width  |-> max(RoundDiv(width * nheight, height), 1),
          height |-> max(RoundDiv(height * nheight, height), 1)]

\* DynamicImage::crop(x, y, width, height) clamps the rectangle to the image
CropDimms(iwidth, iheight, x, y, width, height) ==
    LET cx == min(x, iwidth)
        cy == min(y, iheight)
    IN  [x |-> cx, y |-> cy,
         width  |-> min(width, iwidth - cx),
         height |-> min(height, iheight - cy)]

\* The crop offsets run passes: (resized - sqside) / 2 on u32
CropOffset(resized, sqside) == U32SubHalf(resized, sqside)

-----------------------------------------------------------------------------
(* overlay: lib.rs 69-88 (main.rs 69-88) *)

RngStartMutant(bgdim, fgdim) == U32SubHalf(bgdim, 0)
\* start of x_rng / y_rng: (bg - fg) / 2
RngStart(bgdim, fgdim) == U32SubHalf(bgdim, fgdim)
RngEndMutant(bgdim, fgdim) == U32AddHalf(bgdim + 1, fgdim)
\* end of x_rng / y_rng: (bg + fg) / 2
RngEnd(bgdim, fgdim) == U32AddHalf(bgdim, fgdim)

\* Range::contains
Contains(rng, v) == rng.start <= v /\ v < rng.end

\* the k-th pixel (from 0) that fg.pixels() yields: raster order
NthPixel(fg, k) == SrcPixel(fg, k % fg.width, k \div fg.width)

\* how many canvas positions inside both ranges precede (x, y) in the raster
\* order of the two loops: the number of orig_pixels.next() calls made so far
Consumed(b, xr, yr, x, y) ==
    Cardinality({c \in Coords(b.width, b.height) :
                    /\ Contains(xr, c[1]) /\ Contains(yr, c[2])
                    /\ (c[2] < y \/ (c[2] = y /\ c[1] < x))})

Overlay(b, fg, bld) ==
    LET xs == RngStart(b.width, fg.width)
        ys == RngStart(b.height, fg.height)
        xr == [start |-> xs.value, end |-> RngEnd(b.width, fg.width).value]
        yr == [start |-> ys.value, end |-> RngEnd(b.height, fg.height).value]
        px == [c \in Coords(b.width, b.height) |->
                 IF Contains(xr, c[1]) /\ Contains(yr, c[2])
                 THEN LET k == Consumed(b, xr, yr, c[1], c[2])
                      IN  IF k < fg.width * fg.height
                          THEN ToRgb(NthPixel(fg, k))
                          ELSE ZeroRgb
                 ELSE ToRgb(BgPixel(b, c[1], c[2]))]
    IN  IF bld = "debug" /\ (xs.overflow \/ ys.overflow)
        THEN [panic |-> TRUE, image |-> NoImage]
        ELSE [panic |-> FALSE,
              image |-> [width |-> b.width, height |-> b.height, px |-> px]]

-----------------------------------------------------------------------------
(* confirm: lib.rs 105-125 (main.rs 104-124).  Strings are sequences of    *)
(* one-character strings.                                                  *)

IsWhitespace(c) == c \in {" ", "\n", "\t", "\r"}

RECURSIVE TrimStart(_)
TrimStart(s) ==
    IF s = <<>> THEN s
    ELSE IF IsWhitespace(Head(s)) THEN TrimStart(Tail(s)) ELSE s

RECURSIVE TrimEnd(_)
TrimEnd(s) ==
    IF s = <<>> THEN s
    ELSE IF IsWhitespace(s[Len(s)]) THEN TrimEnd(SubSeq(s, 1, Len(s) - 1)) ELSE s

TrimMutant(s) == TrimEnd(s)
\* str::trim
Trim(s) == TrimEnd(TrimStart(s))

LowerChar(c) ==
    CASE c = "Y" -> "y" [] c = "E" -> "e" [] c = "S" -> "s"
      [] c = "N" -> "n" [] c = "O" -> "o" [] OTHER -> c

\* str::to_lowercase
ToLowercase(s) == [i \in 1..Len(s) |-> LowerChar(s[i])]

ClearMutant(buf) == buf
\* resp.clear()
Clear(buf) == <<>>

\* stdin.read_line(&mut resp) appends the line to the buffer
ReadLine(buf, l) == buf \o l

\* resp = resp.trim().to_lowercase()
Normalize(buf) == ToLowercase(Trim(buf))

\* the two contains tests: what the pass returns ("none": the loop goes
\* round again)
Answer(r) ==
    IF r \in {<<"y">>, <<"y", "e", "s">>} THEN "Continue"
    ELSE IF r \in {<<"n">>, <<"n", "o">>} THEN "Stop"
    ELSE "none"

-----------------------------------------------------------------------------
(* The process *)

\* no exit status yet: the process is running
NoExit == 0 - 1

\* an error arm: raise (lib.rs 127-130) exits with status 1; main.rs prints
\* and returns from main, which ends the process with status 0
Fail(kind) ==
    /\ error' = kind
    /\ pc' = "exited"
    /\ exit' = IF entry = "run" THEN 1 ELSE 0

\* a panic (arithmetic overflow in a debug build) ends the process with 101
Panic ==
    /\ pc' = "exited"
    /\ exit' = 101
    /\ error' = error

OpenErrors(input_path) ==
    IF input_path = "Some"
    THEN {"image_open", "image_decode"}
    ELSE {"clipboard_access", "clipboard_read", "clipboard_construct"}

\* open_image (lib.rs 132-179, main.rs 127-164): the image is acquired
OpenOk ==
    /\ pc = "start"
    /\ \E w \in Dims, h \in Dims, a \in Alphas :
          image' = [width |-> w, height |-> h, alpha |-> a]
    /\ pc' = "opened"
    /\ UNCHANGED <<entry, build, args, exit, error, geom, crop, bg, final_image,
                   fs, clipboard, resp, line, confirmResult>>

\* open_image: opening, decoding or the clipboard fails
OpenFail ==
    /\ pc = "start"
    /\ \E kind \in OpenErrors(args.input_path) : Fail(kind)
    /\ UNCHANGED <<entry, build, args, image, geom, crop, bg, final_image,
                   fs, clipboard, resp, line, confirmResult>>

\* run 268-272
Geometry ==
    /\ pc = "opened"
    /\ LET r == Plan(image.width, image.height, build)
       IN  IF r.panic
           THEN Panic /\ geom' = geom
           ELSE geom' = r.geom /\ pc' = "planned" /\ UNCHANGED <<exit, error>>
    /\ UNCHANGED <<entry, build, args, image, crop, bg, final_image,
                   fs, clipboard, resp, line, confirmResult>>

\* run 273: image.resize(resized_width, resized_height, Triangle)
Resize ==
    /\ pc = "planned"
    /\ bg' = ResizeDimensions(image.width, image.height,
                              geom.resized_width, geom.resized_height)
    /\ pc' = "resized"
    /\ UNCHANGED <<entry, build, args, exit, error, image, geom, crop, final_image,
                   fs, clipboard, resp, line, confirmResult>>

\* run 275-280: bg.crop((resized_width - sqside) / 2, ..., sqside, sqside)
Crop ==
    /\ pc = "resized"
    /\ LET cx == CropOffset(geom.resized_width, geom.sqside)
           cy == CropOffset(geom.resized_height, geom.sqside)
           d  == CropDimms(bg.width, bg.height, cx.value, cy.value,
                           geom.sqside, geom.sqside)
       IN  IF build = "debug" /\ (cx.overflow \/ cy.overflow)
           THEN Panic /\ UNCHANGED <<crop, bg>>
           ELSE /\ crop' = [x |-> cx.value, y |-> cy.value,
                            width |-> geom.sqside, height |-> geom.sqside]
                /\ bg' = [width |-> d.width, height |-> d.height]
                /\ pc' = "cropped"
                /\ UNCHANGED <<exit, error>>
    /\ UNCHANGED <<entry, build, args, image, geom, final_image,
                   fs, clipboard, resp, line, confirmResult>>

\* run 282: blur keeps the dimensions (lib.rs 53-66)
Blur ==
    /\ pc = "cropped"
    /\ bg' = [width |-> bg.width, height |-> bg.height]
    /\ pc' = "blurred"
    /\ UNCHANGED <<entry, build, args, exit, error, image, geom, crop, final_image,
                   fs, clipboard, resp, line, confirmResult>>

\* run 286: overlay(&bg, &image)
OverlayStep ==
    /\ pc = "blurred"
    /\ LET r == Overlay(bg, image, build)
       IN  IF r.panic
           THEN Panic /\ final_image' = final_image
           ELSE final_image' = r.image /\ pc' = "overlaid" /\ UNCHANGED <<exit, error>>
    /\ UNCHANGED <<entry, build, args, image, geom, crop, bg,
                   fs, clipboard, resp, line, confirmResult>>

-----------------------------------------------------------------------------
(* save_image: lib.rs 181-263, main.rs 186-254 *)

\* save_image_to_path 182-188 (main.rs 190-196) / save_image_to_clipboard 227
CheckOutputPath ==
    /\ pc = "overlaid"
    /\ IF args.output_path = "Some" /\ fs.out \in {"dir", "symlink"}
       THEN Fail("output_path_invalid")
       ELSE /\ pc' = IF args.output_path = "None" \/ fs.out = "file"
                     THEN "confirm" ELSE "save"
            /\ UNCHANGED <<exit, error>>
    /\ UNCHANGED <<entry, build, args, image, geom, crop, bg, final_image,
                   fs, clipboard, resp, line, confirmResult>>

\* confirm, up to read_line returning Ok: the line is appended to resp, which
\* is empty here (String::new() on entry, resp.clear() at the start of every
\* later pass, modelled in Decide where the loop goes round)
ReadStdin(l) ==
    /\ pc = "confirm"
    /\ resp' = ReadLine(resp, l)
    /\ line' = l
    /\ pc' = "read"
    /\ UNCHANGED <<entry, build, args, exit, error, image, geom, crop, bg,
                   final_image, fs, clipboard, confirmResult>>

\* confirm: read_line returns Err
ReadStdinErr ==
    /\ pc = "confirm"
    /\ confirmResult' = "IOError"
    /\ pc' = "decided"
    /\ UNCHANGED <<entry, build, args, exit, error, image, geom, crop, bg,
                   final_image, fs, clipboard, resp, line>>

\* confirm, after the read: normalise, return Continue or Stop, or go round
\* the loop (resp.clear(), prompt again)
Decide ==
    /\ pc = "read"
    /\ LET r == Normalize(resp)
       IN  IF Answer(r) = "none"
           THEN /\ resp' = Clear(r)
                /\ line' = <<>>
                /\ pc' = "confirm"
                /\ confirmResult' = confirmResult
           ELSE /\ resp' = r
                /\ line' = line
                /\ pc' = "decided"
                /\ confirmResult' = Answer(r)
    /\ UNCHANGED <<entry, build, args, exit, error, image, geom, crop, bg,
                   final_image, fs, clipboard>>

\* ConfirmResult::Continue with an output path: fs::rename to the backup path
\* (lib.rs 193-209).  When the rename fails, raise ends run; main.rs 212-216
\* prints the error and goes on to save.
Backup ==
    /\ pc = "decided" /\ confirmResult = "Continue" /\ args.output_path = "Some"
    /\ \E renamed \in BOOLEAN :
          IF renamed
          THEN /\ fs' = [out |-> "absent", content |-> "none", backup |-> fs.content]
               /\ pc' = "save"
               /\ UNCHANGED <<exit, error>>
          ELSE /\ fs' = fs
               /\ IF entry = "run"
                  THEN Fail("backup_rename")
                  ELSE error' = "backup_rename" /\ pc' = "save" /\ exit' = exit
    /\ UNCHANGED <<entry, build, args, image, geom, crop, bg, final_image,
                   clipboard, resp, line, confirmResult>>

\* ConfirmResult::Stop: process::exit(0) (lib.rs 210-213, 249-252); main.rs
\* returns from main
Decline ==
    /\ pc = "decided" /\ confirmResult = "Stop"
    /\ pc' = "exited"
    /\ exit' = 0
    /\ UNCHANGED <<entry, build, args, error, image, geom, crop, bg, final_image,
                   fs, clipboard, resp, line, confirmResult>>

\* ConfirmResult::IOError (lib.rs 214, 253; main.rs 221-223, 251)
PromptIOError ==
    /\ pc = "decided" /\ confirmResult = "IOError"
    /\ Fail("stdin_read")
    /\ UNCHANGED <<entry, build, args, image, geom, crop, bg, final_image,
                   fs, clipboard, resp, line, confirmResult>>

\* image.save(output_path) (lib.rs 217-223, main.rs 226-231).  A save that
\* fails may fail before the file is created or after it was truncated.
Save ==
    /\ pc = "save"
    /\ \E outcome \in {"ok", "err_before_create", "err_after_create"} :
          IF outcome = "ok"
          THEN /\ fs' = [fs EXCEPT !.out = "file", !.content = "new"]
               /\ pc' = "exited"
               /\ exit' = 0
               /\ error' = error
          ELSE /\ fs' = IF outcome = "err_after_create"
                        THEN [fs EXCEPT !.out = "file", !.content = "partial"]
                        ELSE fs
               /\ Fail("image_save")
    /\ UNCHANGED <<entry, build, args, image, geom, crop, bg, final_image,
                   clipboard, resp, line, confirmResult>>

\* ConfirmResult::Continue without an output path: Clipboard::new and
\* set_image (lib.rs 230-248, main.rs 235-249)
SetClipboard ==
    /\ pc = "decided" /\ confirmResult = "Continue" /\ args.output_path = "None"
    /\ \E outcome \in {"ok", "clipboard_access", "clipboard_write"} :
          IF outcome = "ok"
          THEN /\ clipboard' = "new"
               /\ pc' = "exited"
               /\ exit' = 0
               /\ error' = error
          ELSE clipboard' = clipboard /\ Fail(outcome)
    /\ UNCHANGED <<entry, build, args, image, geom, crop, bg, final_image,
                   fs, resp, line, confirmResult>>

-----------------------------------------------------------------------------
(* Inputs *)

Alphabet == {"y", "Y", "e", "E", "s", "S", "n", "N", "o", "O", " "}
\* the lines read_line can return: text ended by a newline, or nothing at
\* the end of input
AllLines ==
    {<<>>} \cup
    UNION {{c \o <<"\n">> : c \in [1..n -> Alphabet]} : n \in 0..MaxLine}
SampleLines ==
    {<<>>, <<"y", "\n">>, <<"Y", "e", "s", "\n">>, <<" ", "n", "O", "\n">>,
     <<"n", "\n">>, <<"s", "\n">>}

OutputKinds(output_path) ==
    IF output_path = "Some" THEN {"absent", "file", "dir", "symlink"} ELSE {"absent"}

InitFs(kind) ==
    [out |-> kind, content |-> IF kind = "file" THEN "old" ELSE "none",
     backup |-> "none"]

-----------------------------------------------------------------------------
(* The program: run / main from start to exit *)

Init ==
    /\ entry \in Entries
    /\ build \in Builds
    /\ args \in [input_path : {"Some", "None"}, output_path : {"Some", "None"}]
    /\ pc = "start"
    /\ exit = NoExit
    /\ error = "none"
    /\ image = NoImage
    /\ geom = NoGeom
    /\ crop = NoCrop
    /\ bg = NoImage
    /\ final_image = NoImage
    /\ \E kind \in OutputKinds(args.output_path) : fs = InitFs(kind)
    /\ clipboard = "old"
    /\ resp = <<>>
    /\ line = <<>>
    /\ confirmResult = "none"

Pipeline == Geometry \/ Resize \/ Crop \/ Blur \/ OverlayStep

SaveImage(lines) ==
    \/ CheckOutputPath
    \/ pc = "confirm" /\ \E l \in lines : ReadStdin(l)
    \/ ReadStdinErr
    \/ Decide
    \/ Backup
    \/ Decline
    \/ PromptIOError
    \/ Save
    \/ SetClipboard

Next == OpenOk \/ OpenFail \/ Pipeline \/ SaveImage(SampleLines)

Spec == Init /\ [][Next]_vars

-----------------------------------------------------------------------------
(* The geometry alone, on dimensions up to those where the u32 products    *)
(* leave 32 bits                                                           *)

InitPlan ==
    /\ entry \in Entries
    /\ build \in Builds
    /\ args = [input_path |-> "Some", output_path |-> "Some"]
    /\ pc = "opened"
    /\ exit = NoExit
    /\ error = "none"
    /\ \E w \in Dims \cup BigDims, h \in Dims \cup BigDims :
          image = [width |-> w, height |-> h, alpha |-> 255]
    /\ geom = NoGeom
    /\ crop = NoCrop
    /\ bg = NoImage
    /\ final_image = NoImage
    /\ fs = InitFs("absent")
    /\ clipboard = "old"
    /\ resp = <<>>
    /\ line = <<>>
    /\ confirmResult = "none"

NextPlan == Geometry

SpecPlan == InitPlan /\ [][NextPlan]_vars

-----------------------------------------------------------------------------
(* overlay alone, on every pair of a background and a foreground *)

InitOverlay ==
    /\ entry = "run"
    /\ build \in Builds
    /\ args = [input_path |-> "Some", output_path |-> "Some"]
    /\ pc = "blurred"
    /\ exit = NoExit
    /\ error = "none"
    /\ \E w \in Dims, h \in Dims, a \in Alphas :
          image = [width |-> w, height |-> h, alpha |-> a]
    /\ geom = NoGeom
    /\ crop = NoCrop
    /\ \E w \in Dims, h \in Dims : bg = [width |-> w, height |-> h]
    /\ final_image = NoImage
    /\ fs = InitFs("absent")
    /\ clipboard = "old"
    /\ resp = <<>>
    /\ line = <<>>
    /\ confirmResult = "none"

NextOverlay == OverlayStep

SpecOverlay == InitOverlay /\ [][NextOverlay]_vars

-----------------------------------------------------------------------------
(* save_image alone, from the state run reaches with a 1x1 source, on      *)
(* every line of at most MaxLine characters                                *)

InitSave ==
    /\ entry \in Entries
    /\ build = "release"
    /\ args \in [input_path : {"Some"}, output_path : {"Some", "None"}]
    /\ pc = "overlaid"
    /\ exit = NoExit
    /\ error = "none"
    /\ image = [width |-> 1, height |-> 1, alpha |-> 255]
    /\ geom = Plan(1, 1, build).geom
    /\ crop = [x |-> 0, y |-> 0, width |-> 1, height |-> 1]
    /\ bg = [width |-> 1, height |-> 1]
    /\ final_image = Overlay(bg, image, build).image
    /\ \E kind \in OutputKinds(args.output_path) : fs = InitFs(kind)
    /\ clipboard = "old"
    /\ resp = <<>>
    /\ line = <<>>
    /\ confirmResult = "none"

NextSave == SaveImage(AllLines)

SpecSave == InitSave /\ [][NextSave]_vars

-----------------------------------------------------------------------------
(* Properties *)

SrcRgb(x, y) == LET p == SrcPixel(image, x, y) IN <<p[1], p[2], p[3]>>
BgRgb(x, y) == LET p == BgPixel(bg, x, y) IN <<p[1], p[2], p[3]>>

\* C1: the image handed to the sink is square, of side max(w, h), for every
\* source of positive width w and height h.
C1_SinkImageIsSquare ==
    final_image # NoImage =>
        /\ final_image.width = max(image.width, image.height)
        /\ final_image.height = max(image.width, image.height)

\* C2: when fg fits in bg, overlay's output is the foreground pixel at
\* (x - x0, y - y0) inside the centred rectangle
\* [x0, (bg_w + fg_w) / 2) x [y0, (bg_h + fg_h) / 2), with
\* x0 = (bg_w - fg_w) / 2 and y0 = (bg_h - fg_h) / 2, and the background
\* pixel at (x, y) everywhere else.
C2_OverlayPixels ==
    (pc = "overlaid" /\ image.width <= bg.width /\ image.height <= bg.height) =>
        LET x0 == (bg.width - image.width) \div 2
            y0 == (bg.height - image.height) \div 2
            x1 == (bg.width + image.width) \div 2
            y1 == (bg.height + image.height) \div 2
        IN  /\ final_image.width = bg.width
            /\ final_image.height = bg.height
            /\ \A c \in Coords(bg.width, bg.height) :
                  final_image.px[c] =
                      IF x0 <= c[1] /\ c[1] < x1 /\ y0 <= c[2] /\ c[2] < y1
                      THEN SrcRgb(c[1] - x0, c[2] - y0)
                      ELSE BgRgb(c[1], c[2])

\* a 2x4 foreground on a 4x4 background occupies x = 1..2, y = 0..3
C2_Witness ==
    /\ pc = "overlaid"
    /\ image.width = 2 /\ image.height = 4 /\ bg.width = 4 /\ bg.height = 4
    /\ final_image.px[<<0, 0>>] = BgRgb(0, 0)
    /\ final_image.px[<<1, 0>>] = SrcRgb(0, 0)
    /\ final_image.px[<<2, 3>>] = SrcRgb(1, 3)
    /\ final_image.px[<<3, 3>>] = BgRgb(3, 3)

HadOutputFile == args.output_path = "Some" /\ confirmResult # "none"

\* C6: with an existing output file and a confirmed overwrite, the file is
\* renamed to the backup path before the new image is written; the image is
\* written only after the rename succeeded; an existing output file is never
\* overwritten without having been relocated; after a successful run the
\* backup and the new file both exist.
C6_BackupBeforeWrite ==
    HadOutputFile =>
        /\ pc = "save" => fs.backup = "old"
        /\ fs.content \in {"new", "partial"} => fs.backup = "old"
        /\ fs.content # "none" \/ fs.backup = "old"

Blank == {" ", "\n", "\t", "\r"}
\* line l is one of the words in forms with only white space around it
IsAnswer(l, forms) ==
    \E i \in 1..Len(l), j \in 1..Len(l) :
        /\ i <= j
        /\ SubSeq(l, i, j) \in forms
        /\ \A k \in 1..(i - 1) : l[k] \in Blank
        /\ \A k \in (j + 1)..Len(l) : l[k] \in Blank
YesForms ==
    {<<"y">>, <<"Y">>} \cup
    {<<a, b, c>> : a \in {"y", "Y"}, b \in {"e", "E"}, c \in {"s", "S"}}
NoForms ==
    {<<"n">>, <<"N">>} \cup {<<a, b>> : a \in {"n", "N"}, b \in {"o", "O"}}

\* C7: when the output path is an existing file and the user answers "n" or
\* "no" (any case, white space around it ignored), confirm returns Stop, the
\* process ends with status 0, and the existing file is neither renamed nor
\* overwritten, no backup is made and the save step is not reached.
C7_DeclineChangesNothing ==
    /\ (pc = "read" /\ IsAnswer(line, NoForms)) =>
          /\ ENABLED Decide
          /\ ~ENABLED (Decide /\ ~(pc' = "decided" /\ confirmResult' = "Stop"))
    /\ (pc # "read" /\ IsAnswer(line, NoForms)) => confirmResult = "Stop"
    /\ confirmResult = "Stop" =>
          /\ pc \in {"decided", "exited"}
          /\ pc = "exited" => exit = 0
          /\ error = "none"
          /\ clipboard = "old"
          /\ args.output_path = "Some" =>
                fs = [out |-> "file", content |-> "old", backup |-> "none"]

C7_Witness ==
    /\ args.output_path = "Some"
    /\ line = <<" ", "N", "o", "\n">>
    /\ confirmResult = "Stop"
    /\ pc = "exited" /\ exit = 0
    /\ fs = [out |-> "file", content |-> "old", backup |-> "none"]

\* the run did what was asked: the image was written or put on the clipboard
Completed == fs.content = "new" \/ clipboard = "new"

\* C8: every collaborator error ends the process at once with a non-zero
\* status, and the only early end with status 0 is the user declining.
C8_ErrorsAreFatal ==
    /\ error # "none" => (pc = "exited" /\ exit # 0 /\ exit # NoExit)
    /\ (pc = "exited" /\ exit = 0 /\ ~Completed) => confirmResult = "Stop"

\* C9: for all w, h >= 1 that fit in 32 bits, neither product of the
\* geometry overflows and resized_width, resized_height are
\* floor(w * max(w, h) / min(w, h)) and floor(h * max(w, h) / min(w, h)).
C9_GeometryExact ==
    /\ exit # 101
    /\ geom # NoGeom =>
          LET s == max(image.width, image.height)
              f == min(image.width, image.height)
          IN  /\ f > 0
              /\ ~U32Mul(image.width, s).overflow
              /\ ~U32Mul(image.height, s).overflow
              /\ geom.resized_width = (image.width * s) \div f
              /\ geom.resized_height = (image.height * s) \div f

\* what the claims say a line is answered with
Expected(l) ==
    IF IsAnswer(l, YesForms) THEN "Continue"
    ELSE IF IsAnswer(l, NoForms) THEN "Stop"
    ELSE "none"

\* C10: confirm prompts until it can return: a line that is "y" or "yes"
\* after trimming and lowercasing returns Continue, one that is "n" or "no"
\* returns Stop, a failed read returns IOError, and any other line prompts
\* again; the outcome depends on the last line read alone.
C10_ConfirmStateMachine ==
    /\ [](/\ confirmResult \in {"none", "Continue", "Stop", "IOError"}
          /\ pc \in {"confirm", "read"} => confirmResult = "none"
          /\ pc = "decided" => confirmResult # "none"
          /\ pc # "read" =>
                /\ confirmResult = "Continue" <=> IsAnswer(line, YesForms)
                /\ confirmResult = "Stop" <=> IsAnswer(line, NoForms))
    /\ [][pc = "read" =>
            /\ confirmResult' = Expected(line)
            /\ pc' = IF Expected(line) = "none" THEN "confirm" ELSE "decided"]_vars
    /\ [][confirmResult' = "IOError" => (pc = "confirm" /\ pc' = "decided")
                                          \/ confirmResult = "IOError"]_vars

C10_Witness ==
    /\ pc = "decided"
    /\ line = <<"Y", "e", "S", "\n">>
    /\ resp = <<"y", "e", "s">>
    /\ confirmResult = "Continue"

-----------------------------------------------------------------------------

\* the canvas positions overlay's two ranges select
OverlayRect ==
    {c \in Coords(bg.width, bg.height) :
        /\ Contains([start |-> RngStart(bg.width, image.width).value,
                     end |-> RngEnd(bg.width, image.width).value], c[1])
        /\ Contains([start |-> RngStart(bg.height, image.height).value,
                     end |-> RngEnd(bg.height, image.height).value], c[2])}

\* C11: when fg fits in bg, the centred rectangle is exactly fg_w wide and
\* fg_h high whatever the parity of bg_w - fg_w and bg_h - fg_h, so it has
\* as many positions as fg has pixels: the pixel iterator is not exhausted
\* inside the rectangle, every foreground pixel is placed exactly once, and
\* no position of the rectangle keeps the zero value of the new buffer.
C11_RectangleMatchesForeground ==
    (pc = "overlaid" /\ image.width <= bg.width /\ image.height <= bg.height) =>
        /\ RngEnd(bg.width, image.width).value
              - RngStart(bg.width, image.width).value = image.width
        /\ RngEnd(bg.height, image.height).value
              - RngStart(bg.height, image.height).value = image.height
        /\ Cardinality(OverlayRect) = image.width * image.height
        /\ \A c \in OverlayRect :
              Consumed(bg, [start |-> RngStart(bg.width, image.width).value,
                            end |-> RngEnd(bg.width, image.width).value],
                           [start |-> RngStart(bg.height, image.height).value,
                            end |-> RngEnd(bg.height, image.height).value],
                       c[1], c[2]) < image.width * image.height
        /\ \A f \in Coords(image.width, image.height) :
              Cardinality({c \in Coords(bg.width, bg.height) :
                              final_image.px[c] = SrcRgb(f[1], f[2])}) = 1
        /\ \A c \in OverlayRect : final_image.px[c] # ZeroRgb
        /\ \A c \in Coords(bg.width, bg.height) :
              final_image.px[c] = ZeroRgb => c \notin OverlayRect

\* a 3x2 foreground on a 4x5 background, both differences odd: the rectangle
\* is x = 0..2, y = 1..2 and its last position holds the last pixel of fg
C11_Witness ==
    /\ pc = "overlaid"
    /\ image.width = 3 /\ image.height = 2 /\ bg.width = 4 /\ bg.height = 5
    /\ (bg.width - image.width) % 2 = 1 /\ (bg.height - image.height) % 2 = 1
    /\ Cardinality(OverlayRect) = 6
    /\ final_image.px[<<0, 1>>] = SrcRgb(0, 0)
    /\ final_image.px[<<2, 2>>] = SrcRgb(2, 1)
    /\ final_image.px[<<3, 2>>] = BgRgb(3, 2)
    /\ final_image.px[<<2, 3>>] = BgRgb(2, 3)

====
